---------------------------- MODULE Spec2Model ----------------------------
(***************************************************************************)
(* The Cloudinary asset-storage adapter of taxa-backend                    *)
(* (CloudinaryStorageStrategy), in its five captured variants:             *)
(*   "V1"  src/src/vendure-config.ts, lines  27-172                        *)
(*   "V2"  src/src/vendure-config.ts, lines 308-421                        *)
(*   "V3"  src/src/vendure-config.ts, lines 588-748                        *)
(*   "P0"  src/unnamed/part_000,      lines  25-122                        *)
(*   "P1"  src/unnamed/part_001,      lines  24-125                        *)
(* Strings are TLA+ strings; a character is a string of length 1.          *)
(* The remote service (Cloudinary) is the environment of the adapter: its  *)
(* store, its auto-detection and its replies are modelled at the place of  *)
(* the source that calls it.                                               *)
(* Spec: write, exists and delete called one after the other.              *)
(* SpecMethods: every method called one after the other.                   *)
(* SpecConcurrent: write, exists and delete called by concurrent callers.  *)
(* SpecLive: writes and reads with the events of their streams, the        *)
(* answers of the remote being fair.                                       *)
(***************************************************************************)
EXTENDS Integers, Sequences, FiniteSets, TLC

VARIABLES
    variant,      \* which captured variant of the adapter runs
    credential,   \* process.env.CLOUDINARY_URL: "absent", "empty" or "set"
    adapter,      \* "none" before construction, then "ready" or "failed"
    configCalls,  \* how often cloudinary.config() has run
    version,      \* the remote service's upload counter (the v<digits> of a URL)
    store,        \* the remote service's objects
    call,         \* the operation awaiting its remote reply, or Idle
    issued,       \* the URL the latest successful write returned, and its upload
    last,         \* the operation that settled last, until the next one begins
    outbound,     \* the method invoked last and the outbound requests it has issued
    http,         \* the HTTPS exchange of the read awaiting its reply
    pending,      \* concurrent callers: the call each one has in flight
    remoteLog,    \* concurrent callers: the changes the remote has made, in order
    source        \* the stream piped into the upload awaiting its reply: "ended",
                  \* "failed", or "none"

vars == <<variant, credential, adapter, configCalls, version, store, call, issued, last,
          outbound, http, pending, remoteLog, source>>

(***************************************************************************)
(* Strings (JavaScript String.prototype)                                   *)
(***************************************************************************)

CharAt(s, i) == SubSeq(s, i, i)

Slice(s, from, to) == IF from > to THEN "" ELSE SubSeq(s, from, to)

\* s.indexOf(sub, from): the first index >= from at which sub occurs in s, 0
\* when there is none.
RECURSIVE IndexOfFrom(_, _, _)
IndexOfFrom(s, sub, from) ==
    IF from + Len(sub) - 1 > Len(s) THEN 0
    ELSE IF SubSeq(s, from, from + Len(sub) - 1) = sub THEN from
    ELSE IndexOfFrom(s, sub, from + 1)

Includes(s, sub) == IndexOfFrom(s, sub, 1) # 0

StartsWith(s, pre) == Len(s) >= Len(pre) /\ SubSeq(s, 1, Len(pre)) = pre

\* The last index in lo..hi at which s holds character c, 0 when there is none.
RECURSIVE LastCharIn(_, _, _, _)
LastCharIn(s, c, lo, hi) ==
    IF hi < lo THEN 0
    ELSE IF CharAt(s, hi) = c THEN hi
    ELSE LastCharIn(s, c, lo, hi - 1)

UpperCase == "ABCDEFGHIJKLMNOPQRSTUVWXYZ"
LowerCase == "abcdefghijklmnopqrstuvwxyz"
Digits    == "0123456789"

IsDigit(c) == Len(c) = 1 /\ Includes(Digits, c)

LowerChar(c) ==
    LET k == IndexOfFrom(UpperCase, c, 1)
    IN  IF k = 0 THEN c ELSE CharAt(LowerCase, k)

RECURSIVE ToLowerCase(_)
ToLowerCase(s) ==
    IF s = "" THEN "" ELSE LowerChar(CharAt(s, 1)) \o ToLowerCase(Tail(s))

\* s.split('/'): the segments between slashes, empty ones kept.
RECURSIVE SplitSlash(_)
SplitSlash(s) ==
    LET k == IndexOfFrom(s, "/", 1)
    IN  IF k = 0 THEN <<s>>
        ELSE <<Slice(s, 1, k - 1)>> \o SplitSlash(Slice(s, k + 1, Len(s)))

\* segs.join('/')
RECURSIVE JoinSlash(_)
JoinSlash(segs) ==
    IF segs = <<>> THEN ""
    ELSE IF Len(segs) = 1 THEN segs[1]
    ELSE segs[1] \o "/" \o JoinSlash(Tail(segs))

(***************************************************************************)
(* Node's path module, POSIX flavour (the image runs node:18-alpine)       *)
(***************************************************************************)

\* The index of the last character that is not a slash ('end'), 0 if none.
RECURSIVE LastNonSlash(_, _)
LastNonSlash(p, i) ==
    IF i = 0 THEN 0 ELSE IF CharAt(p, i) # "/" THEN i ELSE LastNonSlash(p, i - 1)

PathEnd(p) == LastNonSlash(p, Len(p))

\* Whether base carries an extension: a last dot that is not its first
\* character, base being other than '..'.
BaseHasExt(base) ==
    LET d == LastCharIn(base, ".", 1, Len(base))
    IN  d >= 2 /\ base # ".."

BaseExt(base) ==
    IF BaseHasExt(base)
    THEN Slice(base, LastCharIn(base, ".", 1, Len(base)), Len(base))
    ELSE ""

\* path.parse(p): {root, dir, base, ext, name}
PathParse(p) ==
    IF p = "" THEN [root |-> "", dir |-> "", base |-> "", ext |-> "", name |-> ""]
    ELSE
    LET abs   == CharAt(p, 1) = "/"
        e     == PathEnd(p)
        \* the scan stops at index start: an absolute path's first slash is not seen
        sl    == LastCharIn(p, "/", IF abs THEN 2 ELSE 1, e - 1)
        from  == IF sl = 0 THEN (IF abs THEN 2 ELSE 1) ELSE sl + 1
        base  == IF e = 0 THEN "" ELSE Slice(p, from, e)
        ext   == BaseExt(base)
    IN  [root |-> IF abs THEN "/" ELSE "",
         dir  |-> IF sl > 0 THEN Slice(p, 1, sl - 1) ELSE IF abs THEN "/" ELSE "",
         base |-> base,
         ext  |-> ext,
         name |-> Slice(base, 1, Len(base) - Len(ext))]

\* path.extname(p)
PathExtname(p) ==
    LET e    == PathEnd(p)
        sl   == LastCharIn(p, "/", 1, e - 1)
        base == IF e = 0 THEN "" ELSE Slice(p, sl + 1, e)
    IN  BaseExt(base)

\* normalizeString(path, allowAboveRoot): drops empty and '.' segments and
\* resolves '..' against the segment before it.
RECURSIVE NormalizeSegs(_, _, _)
NormalizeSegs(segs, acc, allowAboveRoot) ==
    IF segs = <<>> THEN acc
    ELSE LET s == Head(segs) IN
         IF s = "" \/ s = "." THEN NormalizeSegs(Tail(segs), acc, allowAboveRoot)
         ELSE IF s = ".."
         THEN IF acc # <<>> /\ acc[Len(acc)] # ".."
              THEN NormalizeSegs(Tail(segs), SubSeq(acc, 1, Len(acc) - 1), allowAboveRoot)
              ELSE IF allowAboveRoot
                   THEN NormalizeSegs(Tail(segs), Append(acc, ".."), allowAboveRoot)
                   ELSE NormalizeSegs(Tail(segs), acc, allowAboveRoot)
         ELSE NormalizeSegs(Tail(segs), Append(acc, s), allowAboveRoot)

\* path.normalize(p)
PathNormalize(p) ==
    IF p = "" THEN "."
    ELSE
    LET abs      == CharAt(p, 1) = "/"
        trailing == CharAt(p, Len(p)) = "/"
        body     == JoinSlash(NormalizeSegs(SplitSlash(p), <<>>, ~abs))
        body2    == IF body = ""
                    THEN (IF abs THEN "" ELSE IF trailing THEN "./" ELSE ".")
                    ELSE IF trailing THEN body \o "/" ELSE body
    IN  IF abs THEN "/" \o body2 ELSE body2

\* path.join(a, b): the non-empty arguments joined by '/', then normalized.
PathJoin(a, b) ==
    IF a = "" /\ b = "" THEN "."
    ELSE IF a = "" THEN PathNormalize(b)
    ELSE IF b = "" THEN PathNormalize(a)
    ELSE PathNormalize(a \o "/" \o b)

(***************************************************************************)
(* Key and category derivation                                             *)
(***************************************************************************)

Variants    == {"V1", "V2", "V3", "P0", "P1"}
\* The variants of src/src/vendure-config.ts, which derive a category.
FullVariants == {"V1", "V2", "V3"}

Folder == "vendure-assets"

imageExtensions == {".jpg", ".jpeg", ".png", ".gif", ".webp", ".svg", ".bmp", ".tiff", ".ico"}
videoExtensions == {".mp4", ".mov", ".avi", ".wmv", ".flv", ".webm", ".mkv"}

\* getResourceTypeFromIdentifier without its toLowerCase()
GetResourceTypeCaseSensitive(identifier) ==
    LET extension == PathExtname(identifier)
    IN  IF extension \in imageExtensions THEN "image"
        ELSE IF extension \in videoExtensions THEN "video"
        ELSE "raw"

\* getResourceTypeFromIdentifier: path.extname of a string never throws, so the
\* catch branch (which would answer 'image') is not taken.
GetResourceTypeFromIdentifier(identifier) ==
    LET extension == ToLowerCase(PathExtname(identifier))
    IN  IF extension \in imageExtensions THEN "image"
        ELSE IF extension \in videoExtensions THEN "video"
        ELSE "raw"

\* The length of a leading v<digits>/ of s, 0 when s does not start with one.
RECURSIVE FirstNonDigit(_, _)
FirstNonDigit(s, i) ==
    IF i > Len(s) THEN 0 ELSE IF IsDigit(CharAt(s, i)) THEN FirstNonDigit(s, i + 1) ELSE i

VersionSegmentLen(s) ==
    IF Len(s) < 3 \/ CharAt(s, 1) # "v" THEN 0
    ELSE LET stop == FirstNonDigit(s, 2)
         IN  IF stop >= 3 /\ CharAt(s, stop) = "/" THEN stop ELSE 0

\* identifier.match(/\/upload\/(?:v\d+\/)?(.+)/): the capture, "" for no match.
\* The version group is given up when nothing would be left for (.+).
MatchUpload(identifier) ==
    LET at   == IndexOfFrom(identifier, "/upload/", 1)
        rest == IF at = 0 THEN "" ELSE Slice(identifier, at + 8, Len(identifier))
        v    == VersionSegmentLen(rest)
    IN  IF v > 0 /\ v < Len(rest) THEN Slice(rest, v + 1, Len(rest)) ELSE rest

\* url.match(/\/v\d+\/(.+)/): the capture of the leftmost match, "" for none.
RECURSIVE MatchVersionFrom(_, _)
MatchVersionFrom(url, from) ==
    LET i == IndexOfFrom(url, "/v", from)
        v == VersionSegmentLen(Slice(url, i + 1, Len(url)))
    IN  IF i = 0 THEN ""
        ELSE IF v > 0 /\ i + v < Len(url) THEN Slice(url, i + v + 1, Len(url))
        ELSE MatchVersionFrom(url, i + 1)

MatchVersion(url) == MatchVersionFrom(url, 1)

\* getPublicId of V1, V2, V3. No step of the try block throws on a string.
GetPublicId(identifier) ==
    LET match == IF Includes(identifier, "res.cloudinary.com")
                 THEN MatchUpload(identifier) ELSE ""
    IN  IF match # ""
        THEN LET parsed == PathParse(match) IN PathJoin(parsed.dir, parsed.name)
        ELSE Folder \o "/" \o PathParse(identifier).name

\* new URL(url) succeeds on an absolute http(s) URL with a host and throws a
\* TypeError on a bare file name.
UrlParses(url) ==
    \/ StartsWith(url, "https://") /\ Len(url) > 8 /\ CharAt(url, 9) # "/"
    \/ StartsWith(url, "http://") /\ Len(url) > 7 /\ CharAt(url, 8) # "/"

\* new URL(url).pathname: from the first slash after the host to the query or
\* fragment.
UrlPathname(url) ==
    LET host  == IndexOfFrom(url, "://", 1) + 3
        slash == IndexOfFrom(url, "/", host)
        q     == IndexOfFrom(url, "?", host)
        h     == IndexOfFrom(url, "#", host)
        stop  == IF q = 0 /\ h = 0 THEN Len(url)
                 ELSE IF q = 0 THEN h - 1
                 ELSE IF h = 0 THEN q - 1
                 ELSE IF q < h THEN q - 1 ELSE h - 1
    IN  IF slash = 0 \/ slash > stop THEN "/" ELSE Slice(url, slash, stop)

\* getPublicIdFromUrl of part_000: the path segments from the fourth on, then
\* the file name without directory and extension.
GetPublicIdFromUrlP0(url) ==
    IF UrlParses(url)
    THEN LET pathSegments == SplitSlash(UrlPathname(url))
             fileNameWithExt == JoinSlash(SubSeq(pathSegments, 4, Len(pathSegments)))
         IN  PathParse(fileNameWithExt).name
    ELSE PathParse(url).name

\* getPublicIdFromUrl of part_001: all that follows the version segment, the
\* extension kept; without a version segment the identifier itself.
GetPublicIdFromUrlP1(url) ==
    LET match == MatchVersion(url)
    IN  IF match = "" THEN url ELSE match

\* Whether the try block of getPublicIdFromUrl of part_000 throws: new URL(url)
\* does on what is no URL.
ParseRaisesP0(url) == ~UrlParses(url)

\* Whether the try block of getPublicIdFromUrl of part_001 throws: it does
\* itself when the pattern finds no version segment.
ParseRaisesP1(url) == MatchVersion(url) = ""

\* Whether the try block of the key derivation throws and its catch computes
\* the key. No step of the try block of getPublicId throws on a string.
ParseRaises(v, identifier) ==
    CASE v \in FullVariants -> FALSE
      [] v = "P0"           -> ParseRaisesP0(identifier)
      [] v = "P1"           -> ParseRaisesP1(identifier)

\* The public_id that fileExists and deleteFile send.
PublicIdOf(v, identifier) ==
    CASE v \in FullVariants -> GetPublicId(identifier)
      [] v = "P0"           -> GetPublicIdFromUrlP0(identifier)
      [] v = "P1"           -> GetPublicIdFromUrlP1(identifier)

\* The resource_type that fileExists and deleteFile send.
ResourceTypeOf(v, identifier) ==
    IF v \in FullVariants THEN GetResourceTypeFromIdentifier(identifier) ELSE "auto"

\* path.parse(fileName).base: the directory stripped, the extension kept
UploadPublicIdWithExtension(fileName) == PathParse(fileName).base

\* path.parse(path.basename(fileName, ...)): the directory kept
UploadPublicIdWithDirectory(fileName) ==
    LET parsed == PathParse(fileName) IN PathJoin(parsed.dir, parsed.name)

\* The public_id that writeFileFromStream sends (the folder goes beside it).
UploadPublicId(fileName) == PathParse(fileName).name

(***************************************************************************)
(* The remote service, as the adapter's calls see it                       *)
(***************************************************************************)

\* How many uploads the remote serves in a run.
MaxVersion == 2

\* The chunks of a response body are at most MaxChunks.
MaxChunks == 2

CloudName == "demo"

\* What the remote's auto-detection makes of the uploaded bytes: the category,
\* and the format it appends to the URL (none for a raw object).
Detect(content) ==
    CASE content = "jpeg-bytes"  -> [rtype |-> "image", format |-> "jpg"]
      [] content = "png-bytes"   -> [rtype |-> "image", format |-> "png"]
      [] content = "mp4-bytes"   -> [rtype |-> "video", format |-> "mp4"]
      [] content = "other-bytes" -> [rtype |-> "raw",   format |-> ""]

\* The v<digits> of the k-th upload: a timestamp.
VersionDigits(k) == "170000000" \o CharAt(Digits, k + 1)

\* result.secure_url of an upload
SecureUrl(rtype, k, publicId, format) ==
    "https://res.cloudinary.com/" \o CloudName \o "/" \o rtype \o "/upload/v"
        \o VersionDigits(k) \o "/" \o publicId
        \o (IF format = "" THEN "" ELSE "." \o format)

\* An error the remote client rejects with: http_code at the top level of the
\* error object (error.http_code) and inside its error payload
\* (error.error.http_code), 0 where the field is absent.
Err(top, inner) == [kind |-> "remote", http_code |-> top, inner |-> inner]
\* no error
NoErr == [kind |-> "none", http_code |-> 0, inner |-> 0]
\* new Error(msg), made by the adapter itself
NewError == [kind |-> "adapter", http_code |-> 0, inner |-> 0]

NotFoundErrors == {Err(404, 0), Err(0, 404)}
\* an authentication failure, a malformed response (a server error in the
\* payload), a network failure (no code at all)
OtherErrors    == {Err(401, 0), Err(0, 500), Err(0, 0)}
\* 'auto' is no resource type of the metadata and destroy endpoints
BadTypeErrors  == {Err(0, 400), Err(0, 404)}

\* new Error('... is not implemented.') of part_000 and part_001
NotImplemented == [kind |-> "not-implemented", http_code |-> 0, inner |-> 0]
\* the TypeError https.get throws on what is no https URL
InvalidUrl == [kind |-> "invalid-url", http_code |-> 0, inner |-> 0]
\* what the 'error' event of a request carries
TransportErrors == {[kind |-> "ECONNRESET", http_code |-> 0, inner |-> 0],
                    [kind |-> "ENOTFOUND", http_code |-> 0, inner |-> 0]}

\* the error of a request given up for its time
TimeoutError == Err(499, 0)

\* response.statusCode
Statuses == {200, 204, 301, 404, 500}

IsNotFound(e) == e.http_code = 404 \/ e.inner = 404

Stored(rtype, publicId) == \E o \in store : o.rtype = rtype /\ o.public_id = publicId

(***************************************************************************)
(* The adapter's operations                                                *)
(***************************************************************************)

\* The files written: a name and the bytes.
Uploads == {<<"photo.jpg", "jpeg-bytes">>, <<"a/photo.png", "png-bytes">>,
            <<"clip.mp4", "mp4-bytes">>, <<"archive.tar.gz", "other-bytes">>,
            <<"noext", "other-bytes">>, <<"noext", "jpeg-bytes">>}

\* The files written where every method of the adapter is called: an image,
\* and an image and a file of no media type with the name of the one in them.
MethodUploads == {<<"photo.jpg", "jpeg-bytes">>, <<"archive.tar.png", "png-bytes">>,
                  <<"archive.tar.gz", "other-bytes">>}

\* The files concurrent callers write: two images and a video whose names
\* have the same base name.
ConcurrentUploads == {<<"a/x.jpg", "jpeg-bytes">>, <<"b/x.png", "png-bytes">>,
                      <<"x.mp4", "mp4-bytes">>}

\* The upload-time file names exists and delete are called with.
Names == {u[1] : u \in Uploads} \cup {"X.JPG"}

Undefined == "<undefined>"

NoUpload == [name |-> "", public_id |-> "", rtype |-> ""]

NoIssue == [url |-> "", upload |-> NoUpload, sentId |-> "", sentType |-> ""]

Idle == [op |-> "none", arg |-> "", content |-> "", public_id |-> "",
         resource_type |-> "", origin |-> NoUpload,
         afterWrite |-> FALSE, afterDelete |-> FALSE]

NoOp == [op |-> "none", arg |-> "", content |-> "", public_id |-> "",
         resource_type |-> "", origin |-> NoUpload,
         afterWrite |-> FALSE, afterDelete |-> FALSE,
         reply |-> "", err |-> NoErr, settled |-> "", value |-> "", thrown |-> NoErr]

\* The HTTPS exchange of a read: where it stands, the URL requested and the
\* statusCode of the response; NoHttp once another method is invoked.
\* An outbound request: the remote call ("upload", "resource", "destroy" of
\* the cloudinary client, "get" of https), what it names (the public_id, or
\* the URL of a GET) and its folder and resource_type options.
Request(api, target, folder, resourceType) ==
    [api |-> api, target |-> target, folder |-> folder, resource_type |-> resourceType]

\* Two calls of the remote for one invocation.
IssueTwice(request) == <<request, request>>

\* The requests one invocation issues: the remote call stands once in each
\* method, outside any loop, and no catch or callback repeats it.
Issue(request) == <<request>>

NoRequests == [method |-> "", requests |-> <<>>]

\* delivered: the chunks the response has emitted; chunks: the array of
\* readFileToBuffer.
NoHttp == [phase |-> "none", url |-> "", status |-> 0, delivered |-> <<>>,
           chunks |-> <<>>]

\* The calls of the concurrent callers and the remote's log, while one caller
\* awaits each call before the next.
Sequential == pending = <<>> /\ remoteLog = <<>>

\* A Readable that delivers content in two chunks.
Chunked(content) == <<SubSeq(content, 1, 5), SubSeq(content, 6, Len(content))>>

\* streamifier.createReadStream(data): a Readable that delivers the buffer.
CreateReadStream(data) == <<data>>

\* The 'error' event of a Readable, which closes the sequence of its events.
StreamError == "<error>"

\* A Readable that delivers one chunk of content and then fails.
Broken(content) == <<SubSeq(content, 1, 5), StreamError>>

\* stream.pipe(uploadStream): the bytes the upload receives, chunk after
\* chunk, up to the end or the failure of the stream.
RECURSIVE Piped(_)
Piped(stream) ==
    IF stream = <<>> \/ Head(stream) = StreamError THEN ""
    ELSE Head(stream) \o Piped(Tail(stream))

\* Whether pipe ends the upload stream: it does at the 'end' of the source;
\* an 'error' of the source it does not pass on, and neither ends nor
\* destroys the destination.
SourceEnds(stream) == \A k \in DOMAIN stream : stream[k] # StreamError

\* A call begins. origin: the upload that returned the identifier, when it is
\* the URL of a write; afterWrite / afterDelete: whether the call comes next
\* after the write that returned its identifier / a successful delete of it.
Begin(op, arg, content, publicId, resourceType) ==
    [op |-> op, arg |-> arg, content |-> content, public_id |-> publicId,
     resource_type |-> resourceType,
     origin |-> IF arg # "" /\ arg = issued.url THEN issued.upload ELSE NoUpload,
     afterWrite  |-> last.op = "write" /\ last.settled = "resolved" /\ last.value = arg,
     afterDelete |-> last.op = "delete" /\ last.settled = "resolved" /\ last.arg = arg]

\* A call settles: the remote's reply and its error, how the promise settled
\* ("resolved" / "rejected"), the value resolved with and the error thrown.
Settle(c, reply, err, settled, value, thrown) ==
    [op |-> c.op, arg |-> c.arg, content |-> c.content, public_id |-> c.public_id,
     resource_type |-> c.resource_type, origin |-> c.origin,
     afterWrite |-> c.afterWrite, afterDelete |-> c.afterDelete,
     reply |-> reply, err |-> err, settled |-> settled, value |-> value,
     thrown |-> thrown]

\* Every URL a write of the model can return, and every identifier.
AllUrls ==
    {SecureUrl(Detect(u[2]).rtype, k, Folder \o "/" \o UploadPublicId(u[1]),
               Detect(u[2]).format) :
        u \in Uploads \cup MethodUploads \cup ConcurrentUploads, k \in 1..MaxVersion}

\* url without its version segment
WithoutVersion(url) ==
    LET at   == IndexOfFrom(url, "/upload/", 1)
        rest == Slice(url, at + 8, Len(url))
    IN  Slice(url, 1, at + 7) \o Slice(rest, VersionSegmentLen(rest) + 1, Len(rest))

\* Identifiers that are no URL of an upload: a file name with a directory
\* part, and one that holds the remote's host name without the upload marker.
BareIdentifiers == {"a/photo.png", "https://res.cloudinary.com/demo/photo.jpg"}

AllIdentifiers ==
    Names \cup {u[1] : u \in ConcurrentUploads} \cup AllUrls
          \cup {WithoutVersion(u) : u \in AllUrls} \cup BareIdentifiers

\* const public_id = this.getPublicId(identifier);
\* const resource_type = this.getResourceTypeFromIdentifier(identifier);
\* of fileExists and deleteFile, tabulated over the identifiers (a constant
\* table is evaluated once).
Derived ==
    [v \in Variants |->
        [i \in AllIdentifiers |->
            [public_id |-> PublicIdOf(v, i), resource_type |-> ResourceTypeOf(v, i),
             raised |-> ParseRaises(v, i)]]]

\* What exists and delete are called with: an upload-time file name, or the
\* URL the latest write returned.
Identifiers == Names \cup (IF issued.url = "" THEN {} ELSE {issued.url})

\* url without its version segment, tabulated
Unversioned == [u \in AllUrls |-> WithoutVersion(u)]

\* What the methods are called with where every method is called: file
\* names, the URL the latest write returned, and that URL without its version
\* segment.
MethodIdentifiers ==
    {"photo.jpg"} \cup BareIdentifiers
        \cup (IF issued.url = "" THEN {} ELSE {issued.url, Unversioned[issued.url]})

Init ==
    /\ variant \in Variants
    /\ credential \in {"absent", "empty", "set"}
    /\ adapter = "none"
    /\ configCalls = 0
    /\ version = 0
    /\ store = {}
    /\ call = Idle
    /\ issued = NoIssue
    /\ last = NoOp
    /\ outbound = NoRequests
    /\ http = NoHttp
    /\ source = "none"
    /\ Sequential

\* process.env.CLOUDINARY_URL === undefined
CredentialOnlyUndefined(c) == c = "absent"

\* !process.env.CLOUDINARY_URL
CredentialMissing(c) == c \in {"absent", "empty"}

\* constructor: throws unless CLOUDINARY_URL is truthy, else configures the client.
Construct ==
    /\ adapter = "none"
    /\ IF CredentialMissing(credential)
       THEN /\ adapter' = "failed"
            /\ UNCHANGED configCalls
       ELSE /\ configCalls' = configCalls + 1
            /\ adapter' = "ready"
    /\ UNCHANGED <<variant, credential, version, store, call, issued, last>>
    /\ UNCHANGED <<outbound, http, pending, remoteLog, source>>

\* writeFileFromStream up to stream.pipe(uploadStream), content being the
\* bytes the stream delivers
WriteFile(fileName, content) ==
    /\ adapter = "ready"
    /\ call = Idle
    /\ version < MaxVersion
    /\ call' = Begin("write", fileName, content, UploadPublicId(fileName), "auto")
    /\ last' = NoOp
    /\ UNCHANGED <<variant, credential, adapter, configCalls, version, store, issued>>

\* The options of cloudinary.uploader.upload_stream
UploadRequest(fileName) == Request("upload", UploadPublicId(fileName), Folder, "auto")

\* writeFileFromStream entered as method, over the stream given
WriteFileVia(method, fileName, stream) ==
    /\ WriteFile(fileName, Piped(stream))
    /\ outbound' = [method |-> method, requests |-> Issue(UploadRequest(fileName))]
    /\ http' = NoHttp
    /\ source' = IF SourceEnds(stream) THEN "ended" ELSE "failed"
    /\ UNCHANGED <<pending, remoteLog>>

WriteFileFromStream(fileName, stream) ==
    WriteFileVia("writeFileFromStream", fileName, stream)

\* return this.writeFileFromStream(fileName, streamifier.createReadStream(data))
WriteFileFromBuffer(fileName, data) ==
    WriteFileVia("writeFileFromBuffer", fileName, CreateReadStream(data))

\* Whether the upload callback rejects a result that came without error.
\* V1 and V2 test !result || !result.secure_url, the others only !result.
UploadResultRejected(v, hasResult, hasUrl) ==
    IF v \in {"V1", "V2"} THEN ~hasResult \/ ~hasUrl ELSE ~hasResult

\* The upload callback (error, result) => ...
UploadCallback(v, c, reply, err, url) ==
    IF reply = "error" THEN Settle(c, reply, err, "rejected", "", err)
    ELSE IF UploadResultRejected(v, reply # "noresult", url # Undefined)
         THEN Settle(c, reply, NoErr, "rejected", "", NewError)
         ELSE Settle(c, reply, NoErr, "resolved", url, NoErr)

\* The remote serves the upload and the callback runs. reply: "ok" (stored, a
\* result with its secure_url), "nourl" (a result without secure_url),
\* "noresult" (neither error nor result), "error".
UploadReply(reply, err) ==
    /\ call.op = "write"
    /\ source = "ended"
    /\ (reply = "error") = (err # NoErr)
    /\ LET d    == Detect(call.content)
           pid  == Folder \o "/" \o call.public_id
           url  == SecureUrl(d.rtype, version + 1, pid, d.format)
           obj  == [rtype |-> d.rtype, public_id |-> pid, content |-> call.content]
           kept == {o \in store : ~(o.rtype = d.rtype /\ o.public_id = pid)}
       IN  /\ last' = UploadCallback(variant, call, reply, err,
                                     IF reply = "ok" THEN url ELSE Undefined)
           /\ IF reply = "ok"
              THEN /\ store' = kept \cup {obj}
                   /\ version' = version + 1
                   /\ issued' = [url |-> url,
                                 upload |-> [name |-> call.arg, public_id |-> pid,
                                             rtype |-> d.rtype],
                                 sentId |-> "", sentType |-> ""]
              ELSE UNCHANGED <<store, version, issued>>
    /\ call' = Idle
    /\ source' = "none"
    /\ UNCHANGED <<variant, credential, adapter, configCalls>>
    /\ UNCHANGED <<outbound, http, pending, remoteLog>>

\* The upload of a stream that failed is never ended by the adapter. The
\* client library or the remote may give the open request up (a timeout): the
\* callback then runs with that error.
UploadAbandoned(err) ==
    /\ call.op = "write"
    /\ source = "failed"
    /\ last' = UploadCallback(variant, call, "error", err, Undefined)
    /\ call' = Idle
    /\ source' = "none"
    /\ UNCHANGED <<variant, credential, adapter, configCalls, version, store, issued>>
    /\ UNCHANGED <<outbound, http, pending, remoteLog>>

\* issued, once exists or delete has been called with its URL
NoteSent(identifier, c) ==
    IF identifier = issued.url
    THEN [issued EXCEPT !.sentId = c.public_id, !.sentType = c.resource_type]
    ELSE issued

\* A fileExists that configures the client before its lookup.
FileExistsConfiguring(identifier) ==
    /\ adapter = "ready"
    /\ call = Idle
    /\ configCalls' = configCalls + 1
    /\ call' = Begin("exists", identifier, "", Derived[variant][identifier].public_id,
                     Derived[variant][identifier].resource_type)
    /\ issued' = NoteSent(identifier, call')
    /\ last' = NoOp
    /\ outbound' = [method |-> "fileExists",
                    requests |-> Issue(Request("resource", call'.public_id, "",
                                               call'.resource_type))]
    /\ UNCHANGED <<variant, credential, adapter, version, store>>
    /\ http' = NoHttp
    /\ UNCHANGED <<pending, remoteLog, source>>

\* fileExists up to the await of cloudinary.api.resource
FileExists(identifier) ==
    /\ adapter = "ready"
    /\ call = Idle
    /\ call' = Begin("exists", identifier, "", Derived[variant][identifier].public_id,
                     Derived[variant][identifier].resource_type)
    /\ issued' = NoteSent(identifier, call')
    /\ last' = NoOp
    /\ outbound' = [method |-> "fileExists",
                    requests |-> Issue(Request("resource", call'.public_id, "",
                                               call'.resource_type))]
    /\ UNCHANGED <<variant, credential, adapter, configCalls, version, store>>
    /\ http' = NoHttp
    /\ UNCHANGED <<pending, remoteLog, source>>

\* A catch that answers 'false' to every error.
TreatedAsNotFoundAlways(v, e) == TRUE

\* The catch of fileExists: which errors become 'false'. V1, V2, V3 look at
\* error.http_code and error.error.http_code, part_000 and part_001 only at
\* error.http_code.
TreatedAsNotFound(v, e) ==
    IF v \in FullVariants THEN e.http_code = 404 \/ e.inner = 404 ELSE e.http_code = 404

\* What the remote answers to a metadata lookup that it serves: NoErr when the
\* object is there.
ResourceAnswers(c) ==
    IF c.resource_type = "auto" THEN BadTypeErrors
    ELSE IF Stored(c.resource_type, c.public_id) THEN {NoErr}
    ELSE NotFoundErrors

\* The remote answers the lookup (served), or the call fails otherwise, and
\* fileExists continues.
ResourceReply(served, err) ==
    /\ call.op = "exists"
    /\ IF served THEN err \in ResourceAnswers(call) ELSE err \in OtherErrors
    /\ last' = IF served /\ err = NoErr
               THEN Settle(call, "found", NoErr, "resolved", "true", NoErr)
               ELSE IF TreatedAsNotFound(variant, err)
                    THEN Settle(call, IF served THEN "error" ELSE "fault", err,
                                "resolved", "false", NoErr)
                    ELSE Settle(call, IF served THEN "error" ELSE "fault", err,
                                "rejected", "", err)
    /\ call' = Idle
    /\ UNCHANGED <<variant, credential, adapter, configCalls, version, store, issued>>
    /\ UNCHANGED <<outbound, http, pending, remoteLog, source>>

\* deleteFile up to the await of cloudinary.uploader.destroy
DeleteFile(identifier) ==
    /\ adapter = "ready"
    /\ call = Idle
    /\ call' = Begin("delete", identifier, "", Derived[variant][identifier].public_id,
                     Derived[variant][identifier].resource_type)
    /\ issued' = NoteSent(identifier, call')
    /\ last' = NoOp
    /\ outbound' = [method |-> "deleteFile",
                    requests |-> Issue(Request("destroy", call'.public_id, "",
                                               call'.resource_type))]
    /\ UNCHANGED <<variant, credential, adapter, configCalls, version, store>>
    /\ http' = NoHttp
    /\ UNCHANGED <<pending, remoteLog, source>>

\* A deleteFile whose catch logs the failure and returns.
DestroyReplySwallowing(served, err) ==
    /\ call.op = "delete"
    /\ IF served
       THEN err \in (IF call.resource_type = "auto" THEN BadTypeErrors ELSE {NoErr})
       ELSE err \in OtherErrors
    /\ store' = IF served /\ err = NoErr
                THEN {o \in store : ~(o.rtype = call.resource_type
                                        /\ o.public_id = call.public_id)}
                ELSE store
    /\ last' = Settle(call, IF err = NoErr THEN "done" ELSE IF served THEN "error" ELSE "fault",
                      err, "resolved", "void", NoErr)
    /\ call' = Idle
    /\ UNCHANGED <<variant, credential, adapter, configCalls, version, issued>>
    /\ UNCHANGED <<outbound, http, pending, remoteLog, source>>

\* A destroy that removes what is stored at the key in every category.
DestroyReplyEveryCategory(served, err) ==
    /\ call.op = "delete"
    /\ IF served
       THEN err \in (IF call.resource_type = "auto" THEN BadTypeErrors ELSE {NoErr})
       ELSE err \in OtherErrors
    /\ IF served /\ err = NoErr
       THEN /\ store' = {o \in store : o.public_id # call.public_id}
            /\ last' = Settle(call, "done", NoErr, "resolved", "void", NoErr)
       ELSE /\ UNCHANGED store
            /\ last' = Settle(call, IF served THEN "error" ELSE "fault", err,
                              "rejected", "", err)
    /\ call' = Idle
    /\ UNCHANGED <<variant, credential, adapter, configCalls, version, issued>>
    /\ UNCHANGED <<outbound, http, pending, remoteLog, source>>

\* The remote serves the destroy (it resolves whether or not the object was
\* there), or the call fails, and deleteFile continues: it rethrows every
\* failure.
DestroyReply(served, err) ==
    /\ call.op = "delete"
    /\ IF served
       THEN err \in (IF call.resource_type = "auto" THEN BadTypeErrors ELSE {NoErr})
       ELSE err \in OtherErrors
    /\ IF served /\ err = NoErr
       THEN /\ store' = {o \in store : ~(o.rtype = call.resource_type
                                         /\ o.public_id = call.public_id)}
            /\ last' = Settle(call, "done", NoErr, "resolved", "void", NoErr)
       ELSE /\ UNCHANGED store
            /\ last' = Settle(call, IF served THEN "error" ELSE "fault", err,
                              "rejected", "", err)
    /\ call' = Idle
    /\ UNCHANGED <<variant, credential, adapter, configCalls, version, issued>>
    /\ UNCHANGED <<outbound, http, pending, remoteLog, source>>

ReadMethods == {"readFileToBuffer", "readFileToStream"}

\* https.get(identifier, ...) throws, before any request is made, on what is
\* no URL and on another protocol than https:
HttpsGetThrows(identifier) ==
    ~(UrlParses(identifier) /\ StartsWith(identifier, "https://"))

\* An adapter that reads in every variant.
ReadSupportedEverywhere(v) == TRUE

\* Whether the variant reads: part_000 and part_001 throw 'not implemented'.
ReadSupported(v) == v \in FullVariants

\* A toAbsoluteUrl that builds the URL from the derived key.
ToAbsoluteUrlRebuilt(request, identifier) ==
    "https://res.cloudinary.com/" \o CloudName \o "/image/upload/" \o GetPublicId(identifier)

\* readFileToBuffer / readFileToStream up to https.get; part_000 and part_001
\* throw at once.
ReadFile(method, identifier) ==
    /\ adapter = "ready"
    /\ call = Idle
    /\ LET c == Begin(method, identifier, "", "", "")
       IN  IF ~ReadSupported(variant)
           THEN /\ last' = Settle(c, "", NoErr, "thrown", "", NotImplemented)
                /\ outbound' = [method |-> method, requests |-> <<>>]
                /\ http' = NoHttp
                /\ UNCHANGED call
           ELSE IF HttpsGetThrows(identifier)
           THEN /\ last' = Settle(c, "", NoErr, "rejected", "", InvalidUrl)
                /\ outbound' = [method |-> method, requests |-> <<>>]
                /\ http' = NoHttp
                /\ UNCHANGED call
           ELSE /\ call' = c
                /\ last' = NoOp
                /\ http' = [NoHttp EXCEPT !.phase = "sent", !.url = identifier]
                /\ outbound' = [method |-> method,
                                requests |-> Issue(Request("get", identifier, "", ""))]
    /\ UNCHANGED <<variant, credential, adapter, configCalls, version, store, issued>>
    /\ UNCHANGED <<pending, remoteLog, source>>

\* .on('error', ...): the request fails, before a response or (the socket
\* failing) while the body of readFileToBuffer arrives.
RequestError(err) ==
    /\ call.op \in ReadMethods
    /\ http.phase \in {"sent", "body"}
    /\ last' = Settle(call, "error", err, "rejected", "", err)
    /\ http' = [http EXCEPT !.phase = "failed"]
    /\ call' = Idle
    /\ UNCHANGED <<variant, credential, adapter, configCalls, version, store, issued>>
    /\ UNCHANGED <<outbound, pending, remoteLog, source>>

\* The response callback: the headers have arrived with statusCode status.
Response(status) ==
    /\ call.op \in ReadMethods
    /\ http.phase = "sent"
    /\ IF status # 200
       THEN /\ last' = Settle(call, "response", NoErr, "rejected", "", NewError)
            /\ http' = [http EXCEPT !.phase = "refused", !.status = status]
            /\ call' = Idle
       ELSE IF call.op = "readFileToStream"
       THEN /\ last' = Settle(call, "response", NoErr, "resolved", "response", NoErr)
            /\ http' = [http EXCEPT !.phase = "streaming", !.status = status]
            /\ call' = Idle
       ELSE /\ http' = [http EXCEPT !.phase = "body", !.status = status]
            /\ UNCHANGED <<call, last>>
    /\ UNCHANGED <<variant, credential, adapter, configCalls, version, store, issued>>
    /\ UNCHANGED <<outbound, pending, remoteLog, source>>

\* The chunks a response body arrives in.
Chunks == {"ab", "cd"}

\* A 'data' handler that puts the chunk in front.
PushChunkFirst(chunks, chunk) == <<chunk>> \o chunks

\* chunks.push(chunk)
PushChunk(chunks, chunk) == Append(chunks, chunk)

\* Buffer.concat(chunks)
RECURSIVE BufferConcat(_)
BufferConcat(chunks) ==
    IF chunks = <<>> THEN "" ELSE Head(chunks) \o BufferConcat(Tail(chunks))

\* The response emits 'data'. readFileToBuffer's handler pushes the chunk;
\* readFileToStream has attached no handler, the chunk goes to the caller
\* that reads the stream it was resolved with.
BodyChunk(chunk) ==
    /\ http.phase \in {"body", "streaming"}
    /\ Len(http.delivered) < MaxChunks
    /\ http' = [http EXCEPT !.delivered = Append(@, chunk),
                            !.chunks = IF http.phase = "body"
                                       THEN PushChunk(@, chunk) ELSE @]
    /\ UNCHANGED <<variant, credential, adapter, configCalls, version, store, issued>>
    /\ UNCHANGED <<call, last, outbound, pending, remoteLog, source>>

\* response.on('end', ...) of readFileToBuffer
BodyEnd ==
    /\ call.op = "readFileToBuffer"
    /\ http.phase = "body"
    /\ last' = Settle(call, "end", NoErr, "resolved", BufferConcat(http.chunks), NoErr)
    /\ http' = [http EXCEPT !.phase = "ended"]
    /\ call' = Idle
    /\ UNCHANGED <<variant, credential, adapter, configCalls, version, store, issued>>
    /\ UNCHANGED <<outbound, pending, remoteLog, source>>

\* The connection closes before the body of readFileToBuffer has ended: the
\* response emits 'aborted' and 'close', not 'end', and the request no
\* 'error'; no handler of the adapter runs, and the promise stays pending.
\* The caller stops waiting.
BodyAborted ==
    /\ call.op = "readFileToBuffer"
    /\ http.phase = "body"
    /\ last' = Settle(call, "aborted", NoErr, "pending", "", NoErr)
    /\ http' = [http EXCEPT !.phase = "aborted"]
    /\ call' = Idle
    /\ UNCHANGED <<variant, credential, adapter, configCalls, version, store, issued>>
    /\ UNCHANGED <<outbound, pending, remoteLog, source>>

\* The request objects toAbsoluteUrl is handed.
HostRequests == {"request-a", "request-b"}

\* toAbsoluteUrl(_request, identifier): return identifier
ToAbsoluteUrlOf(request, identifier) == identifier

ToAbsoluteUrl(request, identifier) ==
    /\ adapter = "ready"
    /\ call = Idle
    /\ last' = Settle(Begin("toAbsoluteUrl", identifier, "", "", ""), "", NoErr,
                      "returned", ToAbsoluteUrlOf(request, identifier), NoErr)
    /\ outbound' = [method |-> "toAbsoluteUrl", requests |-> <<>>]
    /\ UNCHANGED <<variant, credential, adapter, configCalls, version, store, call, issued>>
    /\ http' = NoHttp
    /\ UNCHANGED <<pending, remoteLog, source>>

AllErrors == NotFoundErrors \cup OtherErrors \cup BadTypeErrors \cup {NoErr}

Next ==
    \/ Construct
    \/ \E u \in Uploads : WriteFileFromStream(u[1], Chunked(u[2]))
    \/ \E r \in {"ok", "nourl", "noresult", "error"}, e \in OtherErrors \cup {NoErr} :
          UploadReply(r, e)
    \/ \E i \in Identifiers : FileExists(i)
    \/ \E s \in BOOLEAN, e \in AllErrors : ResourceReply(s, e)
    \/ \E i \in Identifiers : DeleteFile(i)
    \/ \E s \in BOOLEAN, e \in AllErrors : DestroyReply(s, e)

Spec == Init /\ [][Next]_vars

\* Every method of the adapter, called one after the other.
NextMethods ==
    \/ Construct
    \/ \E u \in MethodUploads : WriteFileFromStream(u[1], Chunked(u[2]))
    \/ \E u \in MethodUploads : WriteFileFromBuffer(u[1], u[2])
    \/ \E r \in {"ok", "nourl", "noresult", "error"}, e \in OtherErrors \cup {NoErr} :
          UploadReply(r, e)
    \/ \E i \in MethodIdentifiers : FileExists(i)
    \/ \E s \in BOOLEAN, e \in AllErrors : ResourceReply(s, e)
    \/ \E i \in MethodIdentifiers : DeleteFile(i)
    \/ \E s \in BOOLEAN, e \in AllErrors : DestroyReply(s, e)
    \/ \E m \in ReadMethods, i \in MethodIdentifiers : ReadFile(m, i)
    \/ \E e \in TransportErrors : RequestError(e)
    \/ \E st \in Statuses : Response(st)
    \/ \E c \in Chunks : BodyChunk(c)
    \/ BodyEnd
    \/ BodyAborted
    \/ \E rq \in HostRequests, i \in MethodIdentifiers : ToAbsoluteUrl(rq, i)

SpecMethods == Init /\ [][NextMethods]_vars

\* The writes and the reads with the events of their streams: the source of a
\* write ends or fails, the body of a response arrives, ends or is cut.
NextLive ==
    \/ Construct
    \/ \E u \in MethodUploads : WriteFileFromStream(u[1], Chunked(u[2]))
    \/ \E u \in MethodUploads : WriteFileFromStream(u[1], Broken(u[2]))
    \/ \E r \in {"ok", "nourl", "noresult", "error"}, e \in OtherErrors \cup {NoErr} :
          UploadReply(r, e)
    \/ UploadAbandoned(TimeoutError)
    \/ \E m \in ReadMethods, i \in MethodIdentifiers : ReadFile(m, i)
    \/ \E e \in TransportErrors : RequestError(e)
    \/ \E st \in Statuses : Response(st)
    \/ \E c \in Chunks : BodyChunk(c)
    \/ BodyEnd
    \/ BodyAborted

\* The events that answer a request in flight: the upload callback of an
\* upload that was ended, the response to a GET or the failure of its request,
\* the end or the cut of a response body.
RemoteAnswers ==
    \/ \E r \in {"ok", "nourl", "noresult", "error"}, e \in OtherErrors \cup {NoErr} :
          UploadReply(r, e)
    \/ \E e \in TransportErrors : RequestError(e)
    \/ \E st \in Statuses : Response(st)
    \/ BodyEnd
    \/ BodyAborted

\* The network and the event loop deliver one of the events that answer a
\* request as long as one is awaited. Nothing obliges the host to call, a
\* body to have a further chunk, or anyone to give up an upload that was not
\* ended.
SpecLive == Init /\ [][NextLive]_vars /\ WF_vars(RemoteAnswers)

TypeOK ==
    /\ variant \in Variants
    /\ adapter \in {"none", "ready", "failed"}
    /\ configCalls \in 0..1
    /\ version \in 0..MaxVersion
    /\ call.op \in {"none", "write", "exists", "delete"} \cup ReadMethods
    /\ last.op \in {"none", "write", "exists", "delete", "toAbsoluteUrl"} \cup ReadMethods
    /\ Len(outbound.requests) <= 1
    /\ http.phase = "body" => call.op = "readFileToBuffer"
    /\ Len(http.delivered) <= MaxChunks
    /\ source \in {"none", "ended", "failed"}
    /\ source # "none" <=> call.op = "write"
    /\ call # Idle => last = NoOp

(***************************************************************************)
(* Concurrent callers: each has one call in flight, made at invocation (a   *)
(* method runs to its remote call without yielding), served by the remote   *)
(* in any order.                                                            *)
(***************************************************************************)

Callers == {"c1", "c2"}

NoCall == [op |-> "none", arg |-> "", content |-> "", public_id |-> "",
           folder |-> "", resource_type |-> ""]

\* The writes in flight.
WritesPending == {c \in Callers : pending[c].op = "write"}

\* The URLs the writes served so far have returned.
UrlsReturned == {remoteLog[k].url : k \in DOMAIN remoteLog} \ {""}

ConcurrentIdentifiers == {"a/x.jpg"} \cup UrlsReturned

\* The variants called concurrently: the classes of vendure-config.ts differ
\* in the upload callback alone, which no other call's reply passes through,
\* and the first stands for them.
ConcurrentVariants == {"V1", "P0", "P1"}

\* The adapter constructed, no call made.
InitConcurrent ==
    /\ variant \in ConcurrentVariants
    /\ credential = "set"
    /\ adapter = "ready"
    /\ configCalls = 1
    /\ version = 0
    /\ store = {}
    /\ call = Idle
    /\ issued = NoIssue
    /\ last = NoOp
    /\ outbound = NoRequests
    /\ http = NoHttp
    /\ pending = [c \in Callers |-> NoCall]
    /\ remoteLog = <<>>
    /\ source = "none"

\* writeFileFromStream by caller c, up to stream.pipe(uploadStream)
InvokeWrite(c, fileName, content) ==
    /\ pending[c] = NoCall
    /\ version + Cardinality(WritesPending) < MaxVersion
    /\ pending' = [pending EXCEPT ![c] =
                      [op |-> "write", arg |-> fileName, content |-> content,
                       public_id |-> UploadPublicId(fileName), folder |-> Folder,
                       resource_type |-> "auto"]]
    /\ UNCHANGED <<variant, credential, adapter, configCalls, version, store, call,
                   issued, last, outbound, http, remoteLog, source>>

\* A fileExists that keeps the key in a field of the adapter, which the calls
\* in flight share.
InvokeExistsSharingKey(c, identifier) ==
    /\ pending[c] = NoCall
    /\ pending' = [d \in Callers |->
                      IF d = c
                      THEN [op |-> "exists", arg |-> identifier, content |-> "",
                            public_id |-> Derived[variant][identifier].public_id,
                            folder |-> "",
                            resource_type |-> Derived[variant][identifier].resource_type]
                      ELSE IF pending[d].op \in {"exists", "delete"}
                      THEN [pending[d] EXCEPT
                               !.public_id = Derived[variant][identifier].public_id]
                      ELSE pending[d]]
    /\ UNCHANGED <<variant, credential, adapter, configCalls, version, store, call,
                   issued, last, outbound, http, remoteLog, source>>

\* fileExists by caller c, up to the await of cloudinary.api.resource: key
\* and category are constants of the invocation.
InvokeExists(c, identifier) ==
    /\ pending[c] = NoCall
    /\ pending' = [pending EXCEPT ![c] =
                      [op |-> "exists", arg |-> identifier, content |-> "",
                       public_id |-> Derived[variant][identifier].public_id,
                       folder |-> "",
                       resource_type |-> Derived[variant][identifier].resource_type]]
    /\ UNCHANGED <<variant, credential, adapter, configCalls, version, store, call,
                   issued, last, outbound, http, remoteLog, source>>

\* deleteFile by caller c, up to the await of cloudinary.uploader.destroy
InvokeDelete(c, identifier) ==
    /\ pending[c] = NoCall
    /\ pending' = [pending EXCEPT ![c] =
                      [op |-> "delete", arg |-> identifier, content |-> "",
                       public_id |-> Derived[variant][identifier].public_id,
                       folder |-> "",
                       resource_type |-> Derived[variant][identifier].resource_type]]
    /\ UNCHANGED <<variant, credential, adapter, configCalls, version, store, call,
                   issued, last, outbound, http, remoteLog, source>>

\* The remote processes the upload of caller c and the callback resolves with
\* result.secure_url. overlapped: another write was in flight.
ServeUpload(c) ==
    /\ pending[c].op = "write"
    /\ LET p    == pending[c]
           d    == Detect(p.content)
           pid  == p.folder \o "/" \o p.public_id
           url  == SecureUrl(d.rtype, version + 1, pid, d.format)
           obj  == [rtype |-> d.rtype, public_id |-> pid, content |-> p.content]
           kept == {o \in store : ~(o.rtype = d.rtype /\ o.public_id = pid)}
       IN  /\ store' = kept \cup {obj}
           /\ remoteLog' = Append(remoteLog,
                   [kind |-> "upload", name |-> p.arg, rtype |-> d.rtype,
                    public_id |-> pid, content |-> p.content, url |-> url,
                    overlapped |-> WritesPending # {c}])
    /\ version' = version + 1
    /\ pending' = [pending EXCEPT ![c] = NoCall]
    /\ UNCHANGED <<variant, credential, adapter, configCalls, call, issued, last,
                   outbound, http, source>>

\* The remote answers the lookup of caller c and fileExists settles.
ServeResource(c) ==
    /\ pending[c].op = "exists"
    /\ pending' = [pending EXCEPT ![c] = NoCall]
    /\ UNCHANGED <<variant, credential, adapter, configCalls, version, store, call,
                   issued, last, outbound, http, remoteLog, source>>

\* The remote processes the destroy of caller c ('auto' it refuses) and
\* deleteFile settles.
ServeDestroy(c) ==
    /\ pending[c].op = "delete"
    /\ LET p    == pending[c]
           gone == {o \in store : o.rtype = p.resource_type /\ o.public_id = p.public_id}
       IN  /\ store' = store \ gone
           /\ remoteLog' = IF gone = {} THEN remoteLog
                           ELSE Append(remoteLog,
                                   [kind |-> "destroy", name |-> p.arg,
                                    rtype |-> p.resource_type, public_id |-> p.public_id,
                                    content |-> "", url |-> "", overlapped |-> FALSE])
    /\ pending' = [pending EXCEPT ![c] = NoCall]
    /\ UNCHANGED <<variant, credential, adapter, configCalls, version, call, issued,
                   last, outbound, http, source>>

NextConcurrent ==
    \/ \E c \in Callers, u \in ConcurrentUploads : InvokeWrite(c, u[1], u[2])
    \/ \E c \in Callers, i \in ConcurrentIdentifiers : InvokeExists(c, i)
    \/ \E c \in Callers, i \in ConcurrentIdentifiers : InvokeDelete(c, i)
    \/ \E c \in Callers : ServeUpload(c)
    \/ \E c \in Callers : ServeResource(c)
    \/ \E c \in Callers : ServeDestroy(c)

SpecConcurrent == InitConcurrent /\ [][NextConcurrent]_vars

(***************************************************************************)
(* Claims                                                                  *)
(***************************************************************************)

Lookups == {r \in {call, [k \in DOMAIN call |-> last[k]]} : r.op \in {"exists", "delete"}}

\* C1: against a remote that serves every request, exists(i) called next after
\* the write that returned i returns true, and exists(i) called next after a
\* successful delete(i) of such an i returns false -- in every variant.
C1_ExistsFollowsWriteAndDelete ==
    last.op = "exists" /\ last.reply # "fault" =>
        /\ last.afterWrite => last.settled = "resolved" /\ last.value = "true"
        /\ last.afterDelete /\ last.origin # NoUpload =>
               last.settled = "resolved" /\ last.value = "false"

\* C2: exists returns false, without raising, when the lookup fails with a 404
\* at the top level of the error or inside its payload, and true when the
\* lookup succeeds.
C2_NotFoundIsFalse ==
    last.op = "exists" =>
        /\ last.reply = "found" => last.settled = "resolved" /\ last.value = "true"
        /\ last.reply # "found" /\ IsNotFound(last.err) =>
               last.settled = "resolved" /\ last.value = "false"

\* C3: when the lookup of exists fails for a reason other than not-found,
\* exists raises that very failure and returns neither false nor true.
C3_OtherFailureIsRaised ==
    last.op = "exists" /\ last.reply # "found" /\ ~IsNotFound(last.err) =>
        /\ last.settled = "rejected"
        /\ last.thrown = last.err
        /\ last.value \notin {"true", "false"}

C3_Witness ==
    /\ variant \in {"V1", "V2"}
    /\ last.op = "exists"
    /\ last.reply = "fault"
    /\ last.err = Err(401, 0)
    /\ last.settled = "rejected"

\* C4: write is rejected when the upload reports an error, no result, or a
\* result without the URL; it never resolves with an undefined identifier --
\* in every variant.
C4_WriteNeverResolvesUndefined ==
    last.op = "write" =>
        /\ last.reply \in {"error", "noresult", "nourl"} => last.settled = "rejected"
        /\ ~(last.settled = "resolved" /\ last.value = Undefined)

\* C5: (variants of vendure-config.ts) the key and the category that exists and
\* delete derive from the URL a write returned are the key the write uploaded
\* under and the category the remote assigned.
C5_UrlResolvesItsUpload ==
    \A r \in Lookups :
        variant \in FullVariants /\ r.origin # NoUpload =>
            /\ r.public_id = r.origin.public_id
            /\ r.resource_type = r.origin.rtype

\* C6: exists and delete called with the upload-time file name n derive the
\* key and the category they derived when called with the URL write(n)
\* returned.
C6_NameAndUrlAgree ==
    call.op \in {"exists", "delete"} /\ issued.sentId # "" /\ call.arg = issued.upload.name =>
        /\ call.public_id = issued.sentId
        /\ call.resource_type = issued.sentType

\* C7: the key exists and delete send begins with 'vendure-assets/' -- in every
\* variant.
C7_KeyInNamespace ==
    \A r \in Lookups : StartsWith(r.public_id, Folder \o "/")

\* C8: exists and delete send a category of {image, video, raw}, never 'auto';
\* only write sends 'auto'.
C8_ConcreteCategory ==
    /\ \A r \in Lookups : r.resource_type \in {"image", "video", "raw"}
    /\ call.op = "write" => call.resource_type = "auto"

\* The identifier's file extension as the specification words it: the text
\* from the last dot of the last path segment on, lower-cased, a dot that
\* opens the segment not counting.
ExtensionOf(identifier) ==
    LET n       == Len(identifier)
        slashes == {i \in 1..n : CharAt(identifier, i) = "/"}
        seg     == IF slashes = {} THEN 1
                   ELSE 1 + CHOOSE i \in slashes : \A j \in slashes : j <= i
        dots    == {i \in (seg + 1)..n : CharAt(identifier, i) = "."}
    IN  IF dots = {} THEN ""
        ELSE ToLowerCase(SubSeq(identifier,
                                CHOOSE i \in dots : \A j \in dots : j <= i, n))

CategoryOf(identifier) ==
    LET e == ExtensionOf(identifier)
    IN  IF e \in {".jpg", ".jpeg", ".png", ".gif", ".webp", ".svg", ".bmp", ".tiff", ".ico"}
        THEN "image"
        ELSE IF e \in {".mp4", ".mov", ".avi", ".wmv", ".flv", ".webm", ".mkv"}
        THEN "video"
        ELSE "raw"

\* C9: (variants of vendure-config.ts) the category exists and delete send is
\* decided by the identifier's extension alone, compared case-insensitively:
\* image set -> image, video set -> video, anything else or none -> raw;
\* whatever calls came before.
C9_CategoryByExtension ==
    \A r \in Lookups :
        variant \in FullVariants => r.resource_type = CategoryOf(r.arg)

C9_Witness ==
    /\ variant = "V2"
    /\ last.op = "exists"
    /\ last.arg = "X.JPG"
    /\ last.resource_type = "image"
    /\ version > 0

\* C10: with CLOUDINARY_URL absent or empty the constructor throws before the
\* client is configured: no adapter is ready, no call is ever made and the
\* remote is never reached.
C10_NoAdapterWithoutCredential ==
    credential \in {"absent", "empty"} =>
        /\ adapter # "ready"
        /\ configCalls = 0
        /\ call = Idle
        /\ last = NoOp
        /\ store = {}
        /\ version = 0

C10_Witness ==
    /\ credential = "empty"
    /\ adapter = "failed"
    /\ configCalls = 0

\* The name of a file without its directory part and without its extension, as
\* the specification words it: the last path segment up to its last dot, a
\* dot that opens the segment not counting.
BaseNameOf(name) ==
    LET n       == Len(name)
        slashes == {i \in 1..n : CharAt(name, i) = "/"}
        seg     == IF slashes = {} THEN 1
                   ELSE 1 + CHOOSE i \in slashes : \A j \in slashes : j <= i
        dots    == {i \in (seg + 1)..n : CharAt(name, i) = "."}
    IN  IF dots = {} THEN SubSeq(name, seg, n)
        ELSE SubSeq(name, seg, (CHOOSE i \in dots : \A j \in dots : j <= i) - 1)

C12_DeleteRaisesRemoteFailure ==
    last.op = "delete" =>
        /\ last.err # NoErr => last.settled = "rejected" /\ last.thrown = last.err
        /\ last.err = NoErr => last.settled = "resolved"

C12_Witness ==
    /\ variant = "V2"
    /\ version = 0
    /\ last.op = "delete"
    /\ last.reply = "done"
    /\ last.settled = "resolved"

\* The read in flight or settled last.
Reads == {r \in {call, [k \in DOMAIN call |-> last[k]]} : r.op \in ReadMethods}

\* C13: (variants of vendure-config.ts) a read issues its GET on the
\* identifier as given; it resolves only on status 200, and is rejected on
\* every other status and on every transport failure, one that cuts the body
\* of a 200 response included.
C13_ReadsGetIdentifierAndNeed200 ==
    variant \in FullVariants =>
        /\ \A r \in Reads : \A k \in DOMAIN outbound.requests :
               outbound.requests[k].api = "get" /\ outbound.requests[k].target = r.arg
        /\ last.op \in ReadMethods /\ last.settled = "resolved" => http.status = 200
        /\ last.op \in ReadMethods /\ last.reply = "response" /\ http.status # 200 =>
               last.settled = "rejected"
        /\ last.op \in ReadMethods /\ last.reply \in {"error", "aborted"} =>
               last.settled = "rejected"

\* C14: in part_000 and part_001 every read fails at once with the
\* not-implemented error, issues no request and yields no value.
C14_ReadsNotImplemented ==
    variant \in {"P0", "P1"} =>
        /\ call.op \notin ReadMethods
        /\ last.op \in ReadMethods =>
               /\ last.settled = "thrown"
               /\ last.thrown = NotImplemented
               /\ last.value = ""
               /\ outbound.requests = <<>>

C14_Witness ==
    /\ variant = "P1"
    /\ version > 0
    /\ last.op = "readFileToStream"
    /\ last.arg = issued.url
    /\ last.settled = "thrown"

\* C15: every step in which toAbsoluteUrl returns, returns the identifier it
\* was given, issues no request and leaves the adapter, the remote and the
\* calls as they were.
C15_ToAbsoluteUrlIsPassthrough ==
    [][last'.op = "toAbsoluteUrl" =>
          /\ last'.settled = "returned"
          /\ last'.value = last'.arg
          /\ outbound'.requests = <<>>
          /\ UNCHANGED <<variant, credential, adapter, configCalls, version, store,
                         call, issued>>]_vars

C15_Witness ==
    /\ version > 0
    /\ store # {}
    /\ last.op = "toAbsoluteUrl"
    /\ last.arg = "photo.jpg"
    /\ last.value = "photo.jpg"

C18_KeyOfRewrittenUrl ==
    [][call.op = "write" /\ issued' # issued /\ issued.url # ""
          /\ Derived[variant][issued.url].public_id = issued'.upload.public_id
       => Derived[variant][issued'.url].public_id = Derived[variant][issued.url].public_id]_vars

\* The URL form of an identifier, and the key of one, as the specification
\* words them: the path after the upload marker, without a leading version
\* segment v<digits> and without the extension of its last segment.
IsUrlForm(identifier) ==
    Includes(identifier, "res.cloudinary.com") /\ Includes(identifier, "/upload/")

KeyOfUrl(identifier) ==
    LET at     == CHOOSE i \in 1..Len(identifier) :
                     /\ SubSeq(identifier, i, i + 7) = "/upload/"
                     /\ \A j \in 1..(i - 1) : SubSeq(identifier, j, j + 7) # "/upload/"
        rest   == SubSeq(identifier, at + 8, Len(identifier))
        cuts   == {i \in 3..(Len(rest) - 1) :
                     /\ CharAt(rest, 1) = "v"
                     /\ CharAt(rest, i) = "/"
                     /\ \A j \in 2..(i - 1) : CharAt(rest, j) \in
                            {"0", "1", "2", "3", "4", "5", "6", "7", "8", "9"}}
        path   == IF cuts = {} THEN rest
                  ELSE SubSeq(rest, 1 + CHOOSE i \in cuts : TRUE, Len(rest))
        n      == Len(path)
        slashes == {i \in 1..n : CharAt(path, i) = "/"}
        seg    == IF slashes = {} THEN 1
                  ELSE 1 + CHOOSE i \in slashes : \A j \in slashes : j <= i
        dots   == {i \in (seg + 1)..n : CharAt(path, i) = "."}
    IN  IF dots = {} THEN path
        ELSE SubSeq(path, 1, (CHOOSE i \in dots : \A j \in dots : j <= i) - 1)

\* C20: the key exists and delete derive from a URL-form identifier is the
\* path after the upload marker, the version segment removed and the final
\* extension stripped; a URL and the same URL without its version segment
\* derive the same key.
C20_KeyOfUrlForm ==
    /\ \A r \in Lookups : IsUrlForm(r.arg) => r.public_id = KeyOfUrl(r.arg)
    /\ issued.url # "" =>
           Derived[variant][issued.url].public_id
               = Derived[variant][Unversioned[issued.url]].public_id

\* BaseNameOf, tabulated over the names written.
BaseNames ==
    [n \in {u[1] : u \in Uploads \cup MethodUploads \cup ConcurrentUploads} |-> BaseNameOf(n)]

\* C17: whatever calls are in flight beside it, a call sends the key and the
\* category it sends when made alone (a write: the name's base name, the
\* folder, 'auto'; exists and delete: what the variant derives from the
\* identifier), and the adapter's configuration is as construction left it.
C17_CallsDeriveAsAlone ==
    /\ \A c \in DOMAIN pending :
          LET p == pending[c]
          IN  /\ p.op = "write" =>
                    /\ p.public_id = BaseNames[p.arg]
                    /\ p.folder = "vendure-assets"
                    /\ p.resource_type = "auto"
              /\ p.op \in {"exists", "delete"} =>
                    /\ p.public_id = Derived[variant][p.arg].public_id
                    /\ p.resource_type = Derived[variant][p.arg].resource_type
    /\ pending # <<>> => adapter = "ready" /\ configCalls = 1 /\ credential = "set"

C17_Witness ==
    /\ variant = "V1"
    /\ pending # <<>>
    /\ pending["c1"].op = "exists"
    /\ pending["c1"].arg \in UrlsReturned
    /\ pending["c2"].op = "delete"
    /\ pending["c2"].arg = "a/x.jpg"

\* The uploads the remote has processed whose object no later upload or
\* destroy of the log has replaced or removed, given what makes two entries
\* concern the same object.
Standing(same(_, _)) ==
    {k \in DOMAIN remoteLog :
        /\ remoteLog[k].kind = "upload"
        /\ \A j \in (k + 1)..Len(remoteLog) : ~same(remoteLog[j], remoteLog[k])}

SameKey(e, f) == e.public_id = f.public_id

SameKeyAndCategory(e, f) == e.public_id = f.public_id /\ e.rtype = f.rtype

\* Writes of names with one base name go to one key.
OneKeyPerBaseName ==
    \A k \in DOMAIN remoteLog :
        remoteLog[k].kind = "upload" =>
            remoteLog[k].public_id = "vendure-assets/" \o BaseNames[remoteLog[k].name]

\* C19 as stated: writes of names with the same base name go to the same key,
\* and the remote holds one object at that key, with the content of the
\* upload it processed last.
C19_OneObjectPerKey ==
    /\ OneKeyPerBaseName
    /\ \A k \in Standing(SameKey) :
          {o \in store : o.public_id = remoteLog[k].public_id}
              = {[rtype |-> remoteLog[k].rtype, public_id |-> remoteLog[k].public_id,
                  content |-> remoteLog[k].content]}

\* C19, amended: writes of names with the same base name go to the same key,
\* and the remote holds, for each category it assigned, one object at that
\* key, with the content of the upload of that category it processed last.
C19_OneObjectPerKeyAndCategory ==
    /\ OneKeyPerBaseName
    /\ \A k \in Standing(SameKeyAndCategory) :
          {o \in store : o.public_id = remoteLog[k].public_id /\ o.rtype = remoteLog[k].rtype}
              = {[rtype |-> remoteLog[k].rtype, public_id |-> remoteLog[k].public_id,
                  content |-> remoteLog[k].content]}

C19_Witness ==
    /\ variant = "V1"
    /\ Len(remoteLog) = 2
    /\ remoteLog[1].name = "a/x.jpg"
    /\ remoteLog[1].overlapped
    /\ remoteLog[2].name = "b/x.png"
    /\ store = {[rtype |-> "image", public_id |-> "vendure-assets/x", content |-> "png-bytes"]}

\* The key of a bare file name, as the specification words it, tabulated.
KeyOfBareName == [i \in AllIdentifiers |-> "vendure-assets/" \o BaseNameOf(i)]

\* C21: every identifier that is not of the URL form, one that holds the
\* remote's host name without the upload marker and one with a directory part
\* included, derives the key 'vendure-assets/' followed by its base name
\* without directory and extension.
C21_KeyOfBareName ==
    \A r \in Lookups : ~IsUrlForm(r.arg) => r.public_id = KeyOfBareName[r.arg]

\* An identifier with the extension of its last segment removed, tabulated.
RawWithoutExtension ==
    [i \in AllIdentifiers |-> SubSeq(i, 1, Len(i) - Len(PathExtname(i)))]

\* C22: the key derivation never makes exists or delete fail: every call
\* makes its remote call with the key derived, and is rejected only with what
\* that call answered; when parsing the identifier raises an error, the key is
\* the identifier as given with its extension removed.
C22_ParseFailureFallsBack ==
    \A r \in Lookups :
        /\ Len(outbound.requests) = 1
        /\ outbound.requests[1].target = r.public_id
        /\ last.op = r.op /\ last.settled = "rejected" => last.reply # ""
        /\ Derived[variant][r.arg].raised =>
               r.public_id = RawWithoutExtension[r.arg]

\* C23: the remote's objects change only in a step of a write or of a delete;
\* a write changes the object at the key and category it uploads to and no
\* other; a delete adds nothing and removes at most one object, the one at the
\* key and category derived from its identifier; exists, the reads and
\* toAbsoluteUrl leave every object as it was.
C23_OnlyWriteAndDeleteChangeObjects ==
    [][/\ store' # store => call.op \in {"write", "delete"}
       /\ call.op = "write" =>
              \A o \in (store \ store') \cup (store' \ store) :
                  /\ o.public_id = "vendure-assets/" \o BaseNames[call.arg]
                  /\ o.rtype = Detect(call.content).rtype
       /\ call.op = "delete" =>
              /\ store' \subseteq store
              /\ Cardinality(store \ store') <= 1
              /\ \A o \in store \ store' :
                     /\ o.public_id = Derived[variant][call.arg].public_id
                     /\ o.rtype = Derived[variant][call.arg].resource_type]_vars

C23_Witness ==
    /\ variant = "V1"
    /\ last.op = "delete"
    /\ last.reply = "done"
    /\ last.arg = "https://res.cloudinary.com/demo/image/upload/v1700000002/vendure-assets/archive.tar.png"
    /\ store = {[rtype |-> "raw", public_id |-> "vendure-assets/archive.tar",
                 content |-> "other-bytes"]}

\* C24: readFileToBuffer resolves only once the body has ended, with all the
\* chunks the response delivered, concatenated in the order of their arrival,
\* and is not settled while the body arrives; readFileToStream resolves with
\* the response in the step the status 200 arrives, no chunk delivered yet,
\* and the adapter consumes no chunk of it.
C24_BufferAfterEndStreamAt200 ==
    /\ last.op = "readFileToBuffer" /\ last.settled = "resolved" =>
           /\ http.phase = "ended"
           /\ last.value = BufferConcat(http.delivered)
    /\ http.phase = "body" => call.op = "readFileToBuffer" /\ last = NoOp
    /\ call.op = "readFileToStream" => http.phase = "sent" /\ http.delivered = <<>>
    /\ last.op = "readFileToStream" /\ last.settled = "resolved" =>
           /\ http.phase = "streaming"
           /\ http.status = 200
           /\ last.value = "response"
           /\ http.chunks = <<>>

C24_Witness ==
    /\ last.op = "readFileToBuffer"
    /\ last.settled = "resolved"
    /\ http.delivered = <<"cd", "ab">>
    /\ last.value = "cdab"

\* C25: the client is configured in one step only, the construction that
\* makes the adapter ready, before any outbound request; every request is
\* issued by a configured adapter, no later step configures again, and every
\* upload names the namespace 'vendure-assets'.
C25_ConfiguredOnceAtConstruction ==
    [][/\ configCalls' # configCalls =>
              /\ configCalls = 0 /\ configCalls' = 1
              /\ adapter = "none" /\ adapter' = "ready"
              /\ outbound = NoRequests /\ outbound' = NoRequests
       /\ adapter' = "ready" => configCalls' = 1
       /\ outbound'.requests # <<>> => configCalls = 1 /\ configCalls' = 1
       /\ \A k \in DOMAIN outbound'.requests :
              outbound'.requests[k].api = "upload" =>
                  outbound'.requests[k].folder = "vendure-assets"]_vars

C25_Witness ==
    /\ configCalls = 1
    /\ version = MaxVersion
    /\ last.op = "exists"
    /\ last.settled = "resolved"
    /\ outbound.method = "fileExists"

C27_ReadToBufferEventuallySettles ==
    (call.op = "readFileToBuffer")
        ~> (last.op = "readFileToBuffer" /\ last.settled \in {"resolved", "rejected"})

=============================================================================
